---- MODULE Spec2Model ----
(***************************************************************************)
(* Order service of monorepo-go-example: the order workflow                *)
(* (pkg/order/service/order.go) on top of the SQL repository               *)
(* (pkg/order/repository/order.go).                                        *)
(*                                                                         *)
(* The store is the pair of tables the repository's statements address:    *)
(* orders(id, user_id, status, total_amount, created_at, updated_at) and   *)
(* order_items(id, order_id, product_id, quantity, price, created_at).     *)
(* A statement run on the *sql.DB handle is its own committed transaction; *)
(* statements run on a *sql.Tx are buffered in tx[p] and reach the tables  *)
(* at Commit, or are dropped by the deferred Rollback.  Every statement,   *)
(* BeginTx and Commit may fail (connectivity, constraint violation): the   *)
(* model fixes no outcome for a statement, so it covers a database whose   *)
(* schema accepts the statement and one whose schema rejects it (the       *)
(* order_items of hack/db/migrations/002 has a product_name NOT NULL that  *)
(* the item INSERT does not supply).                                       *)
(* Rows written by an open transaction are locked against other writers.   *)
(*                                                                         *)
(* Identifiers (uuid.New) are fresh values drawn from a counter, times     *)
(* (time.Now) are readings of a clock that may stand still between two     *)
(* readings, prices are whole numbers of the smallest currency unit, and   *)
(* strings that the code parses or formats (the page token) are sequences  *)
(* of one-character strings.                                               *)
(***************************************************************************)
EXTENDS Integers, Sequences, FiniteSets, TLC

\* ------------------------------------------------------------------ bounds
NumProcs == 2       \* concurrent request workers
MaxOrders == 1      \* orders created in a run of the service
MaxItems == 2       \* items in a create request
MaxData == 3        \* orders in a listed data set
MaxClock == 1       \* latest created_at in a listed data set
MaxTokenLen == 2    \* characters in a page token of a request
MaxTests == 2       \* status strings converted in a run of conversions
MaxUsers == 2       \* users CreateUser requests ask for in a run

Procs == 1..NumProcs

None == "none"

\* ------------------------------------------------- internal/errors package
CodeNotFound == "NOT_FOUND"
CodeInvalidInput == "INVALID_INPUT"
CodeInternal == "INTERNAL_ERROR"
CodeConflict == "CONFLICT"

\* errors.New: an *Error with a message and no code
New(message) == [Code |-> "", Message |-> message]

\* errors.Wrap: a new *Error around the cause; the code is left empty
Wrap(err, message) == [Code |-> "", Message |-> message]

\* errors.WithCode: sets the code of an *Error
WithCode(err, code) == [err EXCEPT !.Code = code]

\* the nil error
NoErr == [Code |-> "", Message |-> "nil"]

\* errors.GetCode
GetCode(err) == IF err = NoErr THEN "" ELSE err.Code

\* the error of the database driver handed to errors.Wrap
DriverErr == [Code |-> "", Message |-> "driver"]

\* --------------------------------------------------------- status mapping
StoredStatuses == {"pending", "confirmed", "shipped", "delivered", "cancelled"}

OrderStatusEnum ==
    {"ORDER_STATUS_UNSPECIFIED", "ORDER_STATUS_PENDING", "ORDER_STATUS_CONFIRMED",
     "ORDER_STATUS_SHIPPED", "ORDER_STATUS_DELIVERED", "ORDER_STATUS_CANCELLED"}

\* mutant of statusToProto: an unrecognized string gives PENDING
statusToProtoDefaultPending(status) ==
    CASE status = "pending" -> "ORDER_STATUS_PENDING"
      [] status = "confirmed" -> "ORDER_STATUS_CONFIRMED"
      [] status = "shipped" -> "ORDER_STATUS_SHIPPED"
      [] status = "delivered" -> "ORDER_STATUS_DELIVERED"
      [] status = "cancelled" -> "ORDER_STATUS_CANCELLED"
      [] OTHER -> "ORDER_STATUS_PENDING"

statusToProto(status) ==
    CASE status = "pending" -> "ORDER_STATUS_PENDING"
      [] status = "confirmed" -> "ORDER_STATUS_CONFIRMED"
      [] status = "shipped" -> "ORDER_STATUS_SHIPPED"
      [] status = "delivered" -> "ORDER_STATUS_DELIVERED"
      [] status = "cancelled" -> "ORDER_STATUS_CANCELLED"
      [] OTHER -> "ORDER_STATUS_UNSPECIFIED"

\* mutant of statusFromProto: CANCELLED is given the other spelling
statusFromProtoCanceled(status) ==
    CASE status = "ORDER_STATUS_PENDING" -> "pending"
      [] status = "ORDER_STATUS_CONFIRMED" -> "confirmed"
      [] status = "ORDER_STATUS_SHIPPED" -> "shipped"
      [] status = "ORDER_STATUS_DELIVERED" -> "delivered"
      [] status = "ORDER_STATUS_CANCELLED" -> "canceled"
      [] OTHER -> "pending"

\* mutant of statusFromProto: a value outside the enum is passed on as a name
\* of its own
statusFromProtoDefaultUnknown(status) ==
    CASE status = "ORDER_STATUS_PENDING" -> "pending"
      [] status = "ORDER_STATUS_CONFIRMED" -> "confirmed"
      [] status = "ORDER_STATUS_SHIPPED" -> "shipped"
      [] status = "ORDER_STATUS_DELIVERED" -> "delivered"
      [] status = "ORDER_STATUS_CANCELLED" -> "cancelled"
      [] OTHER -> "unknown"

statusFromProto(status) ==
    CASE status = "ORDER_STATUS_PENDING" -> "pending"
      [] status = "ORDER_STATUS_CONFIRMED" -> "confirmed"
      [] status = "ORDER_STATUS_SHIPPED" -> "shipped"
      [] status = "ORDER_STATUS_DELIVERED" -> "delivered"
      [] status = "ORDER_STATUS_CANCELLED" -> "cancelled"
      [] OTHER -> "pending"

\* ------------------------------------------------------------- sequences
RECURSIVE SeqSum(_)
SeqSum(s) == IF s = <<>> THEN 0 ELSE Head(s) + SeqSum(Tail(s))

Range(s) == {s[i] : i \in DOMAIN s}

\* all sequences over S of length 0..n
SeqsUpTo(S, n) == UNION {[1..k -> S] : k \in 0..n}

\* the orderings of the finite set S, as sequences without repetition
Perms(S) ==
    {s \in [1..Cardinality(S) -> S] : \A i, j \in DOMAIN s : i # j => s[i] # s[j]}

\* ------------------------------------------------------------------ state
VARIABLES
    orders,       \* committed rows of table orders (a set of rows)
    order_items,  \* committed rows of table order_items (a set of rows)
    nextId,       \* next identifier uuid.New hands out
    clock,        \* the reading time.Now returns
    pc,           \* pc[p]: position of worker p in the handler it runs
    req,          \* req[p]: the request worker p is handling
    cur,          \* cur[p]: local variables of the handler
    tx,           \* tx[p]: uncommitted writes of the *sql.Tx worker p holds
    calls,        \* calls[p]: repository methods the request has called so far
    last,         \* the exchange the last step completed, if it completed one
    walk,         \* a client following next_page_token from the first page
    users         \* table users

vars == <<orders, order_items, nextId, clock, pc, req, cur, tx, calls, last, walk, users>>

\* a *sql.Tx with nothing written; also the state after Rollback or Commit
NoTx == [ins_orders |-> {}, ins_items |-> {}, del_items |-> {}, del_orders |-> {}]

\* rows another worker's open transaction has written: locked until it ends
LockedOrders(p) == UNION {tx[q].del_orders : q \in Procs \ {p}}
LockedItems(p) == UNION {tx[q].del_items : q \in Procs \ {p}}

\* the columns of migration 002 declared NOT NULL with no DEFAULT: an INSERT
\* has to supply them
OrdersNotNull == {"user_id"}
OrderItemsNotNull == {"order_id", "product_id", "product_name", "quantity", "price"}

\* ------------------------------------------------------------- requests
\* an id is the empty string (EmptyId) or an identifier uuid.New can hand out;
\* MaxOrders + 1 is an identifier no order of the run ever gets
EmptyId == 0

Users == {"u1", "u2"}

Item(product, quantity, price) ==
    [product_id |-> product, quantity |-> quantity, price |-> price]

CreateRequest(user, items) == [op |-> "CreateOrder", user_id |-> user, items |-> items]

\* the create requests of the concurrent service: one that passes validation
\* and one for each way of failing it
CreateRequests ==
    {CreateRequest("u1", <<Item("sku-1", 2, 10), Item("sku-2", 3, 7)>>),
     CreateRequest("", <<Item("sku-1", 2, 10)>>),
     CreateRequest("u1", <<>>),
     CreateRequest("u1", <<Item("sku-1", 2, 10), Item("sku-2", 0, 7)>>)}

\* every create request of up to MaxItems items over ItemChoices
ItemChoices ==
    {Item("sku-1", 2, 10), Item("sku-2", 3, 7), Item("", 1, 10),
     Item("sku-1", 0, 10), Item("sku-1", 0 - 1, 10),
     Item("sku-2", 1, 0), Item("sku-2", 1, 0 - 10)}

AllCreateRequests ==
    {CreateRequest(u, items) : u \in {"", "u1", "u2"}, items \in SeqsUpTo(ItemChoices, MaxItems)}

StatusInputs == OrderStatusEnum \cup {"ORDER_STATUS_99"}

NoReq == [op |-> "none"]

\* ------------------------------------------------------------ responses
Response(op, err, order, success) ==
    [op |-> op, err |-> err, order |-> order, success |-> success]

ErrorResponse(op, err) == Response(op, err, None, FALSE)

\* the orderv1.Order message built from a repository.Order and its items
ProtoOrder(order, items) ==
    [id |-> order.id,
     user_id |-> order.user_id,
     status |-> statusToProto(order.status),
     total_amount |-> order.total_amount,
     created_at |-> order.created_at,
     updated_at |-> order.updated_at,
     items |-> [i \in DOMAIN items |->
                  [id |-> items[i].id, product_id |-> items[i].product_id,
                   quantity |-> items[i].quantity, price |-> items[i].price]]]

\* an exchange: worker, request, the repository methods the request called, response
Exchange(p, r, c, response) == [proc |-> p, req |-> r, calls |-> c, resp |-> response]

NoLast == Exchange(0, NoReq, <<>>, Response("none", NoErr, None, FALSE))

\* no client is paging
NoWalk ==
    [active |-> FALSE, done |-> FALSE, user_id |-> "", page_size |-> 0,
     page_token |-> <<>>, pages |-> <<>>]

\* the handler of worker p returns: its locals are dropped and the deferred
\* Rollback discards whatever the transaction had not committed
Return(p, r, c, response) ==
    /\ pc' = [pc EXCEPT ![p] = "idle"]
    /\ req' = [req EXCEPT ![p] = NoReq]
    /\ cur' = [cur EXCEPT ![p] = None]
    /\ tx' = [tx EXCEPT ![p] = NoTx]
    /\ calls' = [calls EXCEPT ![p] = <<>>]
    /\ last' = Exchange(p, r, c, response)

\* the handler of worker p fails with err
Fail(p, err) == Return(p, req[p], calls[p], ErrorResponse(req[p].op, err))

\* the handler of worker p moves to position at with locals c and has called
\* the repository methods cs
Goto(p, at, c, cs) ==
    /\ pc' = [pc EXCEPT ![p] = at]
    /\ cur' = [cur EXCEPT ![p] = c]
    /\ calls' = [calls EXCEPT ![p] = cs]
    /\ last' = NoLast

\* ---------------------------------------------------- service.CreateOrder
\* mutant of ItemError: the quantity check lets zero through
ItemErrorZeroQuantity(item) ==
    IF item.product_id = ""
    THEN WithCode(New("product_id is required"), CodeInvalidInput)
    ELSE IF item.quantity < 0
    THEN WithCode(New("quantity must be positive"), CodeInvalidInput)
    ELSE IF item.price <= 0
    THEN WithCode(New("price must be positive"), CodeInvalidInput)
    ELSE NoErr

\* the three checks on one item of the request, in the order of the loop
ItemError(item) ==
    IF item.product_id = ""
    THEN WithCode(New("product_id is required"), CodeInvalidInput)
    ELSE IF item.quantity <= 0
    THEN WithCode(New("quantity must be positive"), CodeInvalidInput)
    ELSE IF item.price <= 0
    THEN WithCode(New("price must be positive"), CodeInvalidInput)
    ELSE NoErr

\* mutant of LineAmount: the quantity is left out of the product
LineAmountPriceOnly(item) == item.price

\* float64(item.GetQuantity()) * item.GetPrice()
LineAmount(item) == item.quantity * item.price

\* the loop over req.GetItems(): stops at the first failing item, otherwise
\* accumulates totalAmount
RECURSIVE CreateOrderLoop(_, _, _)
CreateOrderLoop(items, i, totalAmount) ==
    IF i > Len(items)
    THEN [err |-> NoErr, totalAmount |-> totalAmount]
    ELSE IF ItemError(items[i]) # NoErr
    THEN [err |-> ItemError(items[i]), totalAmount |-> totalAmount]
    ELSE CreateOrderLoop(items, i + 1, totalAmount + LineAmount(items[i]))

\* mutant of CreateOrderPrepare: an empty item list is let through
CreateOrderPrepareAllowsEmpty(r) ==
    IF r.user_id = ""
    THEN [err |-> WithCode(New("user_id is required"), CodeInvalidInput), totalAmount |-> 0]
    ELSE CreateOrderLoop(r.items, 1, 0)

\* validation and computation of CreateOrder up to the call of repo.Create
CreateOrderPrepare(r) ==
    IF r.user_id = ""
    THEN [err |-> WithCode(New("user_id is required"), CodeInvalidInput), totalAmount |-> 0]
    ELSE IF Len(r.items) = 0
    THEN [err |-> WithCode(New("at least one item is required"), CodeInvalidInput),
          totalAmount |-> 0]
    ELSE CreateOrderLoop(r.items, 1, 0)

\* the repository.Order CreateOrder builds, with the id and the times
\* repository.Create assigns
NewOrder(id, user, totalAmount, now) ==
    [id |-> id, user_id |-> user, status |-> "pending", total_amount |-> totalAmount,
     created_at |-> now, updated_at |-> now]

\* CreateOrder up to the first statement of repository.Create: validation,
\* BeginTx, time.Now and uuid.New
CreateOrder(p, r) ==
    /\ pc[p] = "idle"
    /\ UNCHANGED <<orders, order_items, clock, walk, users>>
    /\ LET prep == CreateOrderPrepare(r) IN
       IF prep.err # NoErr
       THEN /\ Return(p, r, <<>>, ErrorResponse("CreateOrder", prep.err))
            /\ UNCHANGED nextId
       ELSE \/ /\ Return(p, r, <<"Create">>,
                         ErrorResponse("CreateOrder",
                                       Wrap(DriverErr, "failed to begin transaction")))
               /\ UNCHANGED nextId
            \/ /\ nextId <= MaxOrders
               /\ nextId' = nextId + 1
               /\ req' = [req EXCEPT ![p] = r]
               /\ Goto(p, "create_order",
                       [order |-> NewOrder(nextId, r.user_id, prep.totalAmount, clock),
                        items |-> r.items, i |-> 1],
                       <<"Create">>)
               /\ UNCHANGED tx

\* mutant of CreateInsertOrder: the INSERT runs on the database handle instead
\* of the transaction, so it is committed at once
CreateInsertOrderOnDB(p) ==
    /\ pc[p] = "create_order"
    /\ UNCHANGED <<order_items, nextId, clock, walk, users>>
    /\ \/ /\ Fail(p, Wrap(DriverErr, "failed to create order"))
          /\ UNCHANGED orders
       \/ /\ orders' = orders \cup {cur[p].order}
          /\ Goto(p, IF Len(cur[p].items) = 0 THEN "create_commit" ELSE "create_item",
                  cur[p], calls[p])
          /\ UNCHANGED <<req, tx>>

\* repository.Create: INSERT INTO orders, inside the transaction
CreateInsertOrder(p) ==
    /\ pc[p] = "create_order"
    /\ UNCHANGED <<orders, order_items, nextId, clock, walk, users>>
    /\ \/ Fail(p, Wrap(DriverErr, "failed to create order"))
       \/ /\ tx' = [tx EXCEPT ![p].ins_orders = @ \cup {cur[p].order}]
          /\ Goto(p, IF Len(cur[p].items) = 0 THEN "create_commit" ELSE "create_item",
                  cur[p], calls[p])
          /\ UNCHANGED req

\* the row repository.Create inserts for the i-th item of the request
ItemRow(order, items, i) ==
    [id |-> <<order.id, i>>, order_id |-> order.id,
     product_id |-> items[i].product_id, quantity |-> items[i].quantity,
     price |-> items[i].price, created_at |-> order.created_at]

\* repository.Create: one turn of the loop INSERT INTO order_items
CreateInsertItem(p) ==
    /\ pc[p] = "create_item"
    /\ UNCHANGED <<orders, order_items, nextId, clock, walk, users>>
    /\ \/ Fail(p, Wrap(DriverErr, "failed to create order item"))
       \/ /\ tx' = [tx EXCEPT ![p].ins_items =
                      @ \cup {ItemRow(cur[p].order, cur[p].items, cur[p].i)}]
          /\ Goto(p, IF cur[p].i = Len(cur[p].items) THEN "create_commit" ELSE "create_item",
                  [cur[p] EXCEPT !.i = @ + 1], calls[p])
          /\ UNCHANGED req

\* the tables after the transaction t commits
CommitOrders(t) == {o \in orders : o.id \notin t.del_orders} \cup t.ins_orders
CommitItems(t) == {it \in order_items : it.id \notin t.del_items} \cup t.ins_items

\* repository.Create: tx.Commit, then CreateOrder builds its response
CreateCommit(p) ==
    /\ pc[p] = "create_commit"
    /\ UNCHANGED <<nextId, clock, walk, users>>
    /\ \/ /\ Fail(p, Wrap(DriverErr, "failed to commit transaction"))
          /\ UNCHANGED <<orders, order_items>>
       \/ /\ orders' = CommitOrders(tx[p])
          /\ order_items' = CommitItems(tx[p])
          /\ Return(p, req[p], calls[p],
                    Response("CreateOrder", NoErr, ProtoOrder(cur[p].order, <<>>), FALSE))

\* -------------------------------------------------- repository.GetByID
\* mutant of StartGetByID: the id is checked only after GetByID was called
StartGetByIDCheckLate(p, r) ==
    /\ pc[p] = "idle"
    /\ UNCHANGED <<orders, order_items, nextId, clock, walk, users>>
    /\ IF r.id = EmptyId
       THEN Return(p, r, <<"GetByID">>,
                   ErrorResponse(r.op, WithCode(New("id is required"), CodeInvalidInput)))
       ELSE /\ req' = [req EXCEPT ![p] = r]
            /\ Goto(p, "get_order", [id |-> r.id, order |-> None, status |-> None],
                    <<"GetByID">>)
            /\ UNCHANGED tx

\* the calls GetOrder and CancelOrder start with: the id check, then GetByID
StartGetByID(p, r) ==
    /\ pc[p] = "idle"
    /\ UNCHANGED <<orders, order_items, nextId, clock, walk, users>>
    /\ IF r.id = EmptyId
       THEN Return(p, r, <<>>,
                   ErrorResponse(r.op, WithCode(New("id is required"), CodeInvalidInput)))
       ELSE /\ req' = [req EXCEPT ![p] = r]
            /\ Goto(p, "get_order", [id |-> r.id, order |-> None, status |-> None],
                    <<"GetByID">>)
            /\ UNCHANGED tx

\* service.GetOrder
GetOrder(p, id) == StartGetByID(p, [op |-> "GetOrder", id |-> id])

\* service.CancelOrder
CancelOrder(p, id) == StartGetByID(p, [op |-> "CancelOrder", id |-> id])

\* mutant of GetByIDOrder: the error of a missing row carries no code
GetByIDOrderNoCode(p) ==
    /\ pc[p] = "get_order"
    /\ UNCHANGED <<orders, order_items, nextId, clock, walk, users>>
    /\ \/ Fail(p, Wrap(DriverErr, "failed to get order"))
       \/ /\ {o \in orders : o.id = cur[p].id} = {}
          /\ Fail(p, New("order not found"))
       \/ \E o \in orders :
            /\ o.id = cur[p].id
            /\ Goto(p, "get_items", [cur[p] EXCEPT !.order = o], calls[p])
            /\ UNCHANGED <<req, tx>>

\* GetByID, first statement: SELECT ... FROM orders WHERE id = $1
GetByIDOrder(p) ==
    /\ pc[p] = "get_order"
    /\ UNCHANGED <<orders, order_items, nextId, clock, walk, users>>
    /\ \/ Fail(p, Wrap(DriverErr, "failed to get order"))
       \/ /\ {o \in orders : o.id = cur[p].id} = {}
          /\ Fail(p, WithCode(New("order not found"), CodeNotFound))
       \/ \E o \in orders :
            /\ o.id = cur[p].id
            /\ Goto(p, "get_items", [cur[p] EXCEPT !.order = o], calls[p])
            /\ UNCHANGED <<req, tx>>

\* the results SELECT ... FROM order_items WHERE order_id = $1 ORDER BY
\* created_at ASC can deliver: rows of equal created_at come in any order
ItemsByCreatedAt(id) ==
    LET rows == {it \in order_items : it.order_id = id} IN
    {s \in Perms(rows) : \A i, j \in DOMAIN s : i < j => s[i].created_at <= s[j].created_at}

\* mutant of CancelCheck: a delivered order is let through
CancelCheckCancelledOnly(order) ==
    IF order.status = "cancelled"
    THEN WithCode(New("order is already cancelled"), CodeInvalidInput)
    ELSE NoErr

\* mutant of CancelCheck: a shipped order is refused as well
CancelCheckShipped(order) ==
    IF order.status = "cancelled"
    THEN WithCode(New("order is already cancelled"), CodeInvalidInput)
    ELSE IF order.status \in {"delivered", "shipped"}
    THEN WithCode(New("cannot cancel delivered order"), CodeInvalidInput)
    ELSE NoErr

\* CancelOrder after GetByID: the check of the status it read
CancelCheck(order) ==
    IF order.status = "cancelled"
    THEN WithCode(New("order is already cancelled"), CodeInvalidInput)
    ELSE IF order.status = "delivered"
    THEN WithCode(New("cannot cancel delivered order"), CodeInvalidInput)
    ELSE NoErr

\* what the handler does with the result of GetByID
AfterGetByID(p, order, items) ==
    IF req[p].op = "CancelOrder"
    THEN IF CancelCheck(order) # NoErr
         THEN Fail(p, CancelCheck(order))
         ELSE /\ Goto(p, "update_status",
                      [id |-> cur[p].id, order |-> None, status |-> "cancelled"],
                      Append(calls[p], "UpdateStatus"))
              /\ UNCHANGED <<req, tx>>
    ELSE Return(p, req[p], calls[p],
                Response(req[p].op, NoErr, ProtoOrder(order, items), FALSE))

\* GetByID, second statement: the items of the order
GetByIDItems(p) ==
    /\ pc[p] = "get_items"
    /\ UNCHANGED <<orders, order_items, nextId, clock, walk, users>>
    /\ \/ Fail(p, Wrap(DriverErr, "failed to get order items"))
       \/ \E items \in ItemsByCreatedAt(cur[p].id) : AfterGetByID(p, cur[p].order, items)

\* ----------------------------------------------- service.UpdateOrderStatus
\* mutant of UpdateOrderStatusCheck: the status is not checked
UpdateOrderStatusCheckIdOnly(r) ==
    IF r.id = EmptyId
    THEN WithCode(New("id is required"), CodeInvalidInput)
    ELSE NoErr

\* the two checks UpdateOrderStatus makes before it calls the repository
UpdateOrderStatusCheck(r) ==
    IF r.id = EmptyId
    THEN WithCode(New("id is required"), CodeInvalidInput)
    ELSE IF r.status = "ORDER_STATUS_UNSPECIFIED"
    THEN WithCode(New("status is required"), CodeInvalidInput)
    ELSE NoErr

UpdateOrderStatus(p, id, status) ==
    LET r == [op |-> "UpdateOrderStatus", id |-> id, status |-> status] IN
    /\ pc[p] = "idle"
    /\ UNCHANGED <<orders, order_items, nextId, clock, walk, users>>
    /\ IF UpdateOrderStatusCheck(r) # NoErr
       THEN Return(p, r, <<>>, ErrorResponse(r.op, UpdateOrderStatusCheck(r)))
       ELSE /\ req' = [req EXCEPT ![p] = r]
            /\ Goto(p, "update_status",
                    [id |-> id, order |-> None, status |-> statusFromProto(status)],
                    <<"UpdateStatus">>)
            /\ UNCHANGED tx

\* mutant of UpdatedOrders: a delivered or cancelled row is left as it is
UpdatedOrdersKeepTerminal(id, status, now) ==
    {IF o.id = id /\ o.status \notin {"delivered", "cancelled"}
     THEN [o EXCEPT !.status = status, !.updated_at = now] ELSE o : o \in orders}

UpdatedOrdersResetTotal(id, status, now) ==
    {IF o.id = id
     THEN [o EXCEPT !.status = status, !.updated_at = now, !.total_amount = 0]
     ELSE o : o \in orders}

\* the table orders after UPDATE orders SET status = $1, updated_at = $2 WHERE id = $3
UpdatedOrders(id, status, now) ==
    {IF o.id = id THEN [o EXCEPT !.status = status, !.updated_at = now] ELSE o : o \in orders}

\* repository.UpdateStatus, called by UpdateOrderStatus and by CancelOrder
UpdateStatus(p) ==
    /\ pc[p] = "update_status"
    /\ UNCHANGED <<order_items, nextId, clock, walk, users>>
    /\ \/ /\ Fail(p, Wrap(DriverErr, "failed to update order status"))
          /\ UNCHANGED orders
       \/ /\ cur[p].id \notin LockedOrders(p)
          /\ IF {o \in orders : o.id = cur[p].id} = {}
             THEN /\ Fail(p, WithCode(New("order not found"), CodeNotFound))
                  /\ UNCHANGED orders
             ELSE /\ orders' = UpdatedOrders(cur[p].id, cur[p].status, clock)
                  /\ IF req[p].op = "CancelOrder"
                     THEN Return(p, req[p], calls[p], Response("CancelOrder", NoErr, None, TRUE))
                     ELSE /\ Goto(p, "get_order",
                                  [id |-> cur[p].id, order |-> None, status |-> None],
                                  Append(calls[p], "GetByID"))
                          /\ UNCHANGED <<req, tx>>
       \/ /\ cur[p].id \notin LockedOrders(p)
          /\ orders' = UpdatedOrders(cur[p].id, cur[p].status, clock)
          /\ Fail(p, Wrap(DriverErr, "failed to get affected rows"))

\* --------------------------------------------------- repository.Delete
\* Delete up to its first statement: BeginTx
Delete(p, id) ==
    LET r == [op |-> "Delete", id |-> id] IN
    /\ pc[p] = "idle"
    /\ UNCHANGED <<orders, order_items, nextId, clock, walk, users>>
    /\ \/ Return(p, r, <<"Delete">>,
                 ErrorResponse("Delete", Wrap(DriverErr, "failed to begin transaction")))
       \/ /\ req' = [req EXCEPT ![p] = r]
          /\ Goto(p, "delete_items", [id |-> id, order |-> None, status |-> None],
                  <<"Delete">>)
          /\ UNCHANGED tx

\* mutant of DeleteItems: the DELETE runs on the database handle instead of
\* the transaction, so it is committed at once
DeleteItemsOnDB(p) ==
    /\ pc[p] = "delete_items"
    /\ UNCHANGED <<orders, nextId, clock, walk, users>>
    /\ \/ /\ Fail(p, Wrap(DriverErr, "failed to delete order items"))
          /\ UNCHANGED order_items
       \/ /\ order_items' = {it \in order_items : it.order_id # cur[p].id}
          /\ Goto(p, "delete_order", cur[p], calls[p])
          /\ UNCHANGED <<req, tx>>

\* DELETE FROM order_items WHERE order_id = $1, inside the transaction
DeleteItems(p) ==
    /\ pc[p] = "delete_items"
    /\ UNCHANGED <<orders, order_items, nextId, clock, walk, users>>
    /\ \/ Fail(p, Wrap(DriverErr, "failed to delete order items"))
       \/ LET ids == {it.id : it \in {x \in order_items : x.order_id = cur[p].id}} IN
          /\ ids \cap LockedItems(p) = {}
          /\ tx' = [tx EXCEPT ![p].del_items = @ \cup ids]
          /\ Goto(p, "delete_order", cur[p], calls[p])
          /\ UNCHANGED req

\* order_items.order_id REFERENCES orders(id) ON DELETE CASCADE: the item rows
\* that go with the order row id when it is deleted
CascadeItems(id) == {it.id : it \in {x \in order_items : x.order_id = id}}

\* DELETE FROM orders WHERE id = $1 and the RowsAffected check
DeleteOrder(p) ==
    /\ pc[p] = "delete_order"
    /\ UNCHANGED <<orders, order_items, nextId, clock, walk, users>>
    /\ \/ Fail(p, Wrap(DriverErr, "failed to delete order"))
       \/ Fail(p, Wrap(DriverErr, "failed to get affected rows"))
       \/ /\ cur[p].id \notin LockedOrders(p)
          /\ IF {o \in orders : o.id = cur[p].id} = {}
             THEN Fail(p, WithCode(New("order not found"), CodeNotFound))
             ELSE /\ CascadeItems(cur[p].id) \cap LockedItems(p) = {}
                  /\ tx' = [tx EXCEPT ![p].del_orders = @ \cup {cur[p].id},
                                      ![p].del_items = @ \cup CascadeItems(cur[p].id)]
                  /\ Goto(p, "delete_commit", cur[p], calls[p])
                  /\ UNCHANGED req

\* tx.Commit of Delete
DeleteCommit(p) ==
    /\ pc[p] = "delete_commit"
    /\ UNCHANGED <<nextId, clock, walk, users>>
    /\ \/ /\ Fail(p, Wrap(DriverErr, "failed to commit transaction"))
          /\ UNCHANGED <<orders, order_items>>
       \/ /\ orders' = CommitOrders(tx[p])
          /\ order_items' = CommitItems(tx[p])
          /\ Return(p, req[p], calls[p], Response("Delete", NoErr, None, FALSE))

\* ------------------------------------------------------- the order service
\* the ids a request can carry: the empty string, an identifier that matches
\* no order, and the identifiers of orders whose creation has ended (uuid.New
\* values are not known to any client before CreateOrder returns them)
ClientIds ==
    {EmptyId, MaxOrders + 1} \cup
    {id \in 1..MaxOrders :
        id < nextId /\ \A p \in Procs : pc[p] \in {"create_order", "create_item", "create_commit"}
                                          => cur[p].order.id # id}

Init ==
    /\ orders = {}
    /\ order_items = {}
    /\ nextId = 1
    /\ clock = 0
    /\ pc = [p \in Procs |-> "idle"]
    /\ req = [p \in Procs |-> NoReq]
    /\ cur = [p \in Procs |-> None]
    /\ tx = [p \in Procs |-> NoTx]
    /\ calls = [p \in Procs |-> <<>>]
    /\ last = NoLast
    /\ walk = NoWalk
    /\ users = {}

Next ==
    \/ \E p \in Procs, r \in CreateRequests : CreateOrder(p, r)
    \/ \E p \in Procs : CreateInsertOrder(p)
    \/ \E p \in Procs : CreateInsertItem(p)
    \/ \E p \in Procs : CreateCommit(p)
    \/ \E p \in Procs, id \in ClientIds : GetOrder(p, id)
    \/ \E p \in Procs, id \in ClientIds : CancelOrder(p, id)
    \/ \E p \in Procs : GetByIDOrder(p)
    \/ \E p \in Procs : GetByIDItems(p)
    \/ \E p \in Procs, id \in ClientIds, status \in StatusInputs :
          UpdateOrderStatus(p, id, status)
    \/ \E p \in Procs : UpdateStatus(p)
    \/ \E p \in Procs, id \in ClientIds \ {EmptyId} : Delete(p, id)
    \/ \E p \in Procs : DeleteItems(p)
    \/ \E p \in Procs : DeleteOrder(p)
    \/ \E p \in Procs : DeleteCommit(p)

Spec == Init /\ [][Next]_vars

\* ------------------------------------------------ one worker, every request
\* worker 1 alone creates orders from every request of AllCreateRequests and
\* reads them back
NextCreate ==
    \/ \E r \in AllCreateRequests : CreateOrder(1, r)
    \/ CreateInsertOrder(1)
    \/ CreateInsertItem(1)
    \/ CreateCommit(1)
    \/ \E id \in ClientIds : GetOrder(1, id)
    \/ GetByIDOrder(1)
    \/ GetByIDItems(1)

SpecCreate == Init /\ [][NextCreate]_vars

\* ------------------------------------------- one worker, every operation
\* worker 1 alone runs the requests one after the other: no request runs
\* while another is in progress
NextSeq ==
    \/ \E r \in CreateRequests : CreateOrder(1, r)
    \/ CreateInsertOrder(1)
    \/ CreateInsertItem(1)
    \/ CreateCommit(1)
    \/ \E id \in ClientIds : GetOrder(1, id)
    \/ \E id \in ClientIds : CancelOrder(1, id)
    \/ GetByIDOrder(1)
    \/ GetByIDItems(1)
    \/ \E id \in ClientIds, status \in StatusInputs : UpdateOrderStatus(1, id, status)
    \/ UpdateStatus(1)
    \/ \E id \in ClientIds \ {EmptyId} : Delete(1, id)
    \/ DeleteItems(1)
    \/ DeleteOrder(1)
    \/ DeleteCommit(1)

SpecSeq == Init /\ [][NextSeq]_vars

\* ----------------------------------------------------- strconv.Itoa, Atoi
DigitChars == <<"0", "1", "2", "3", "4", "5", "6", "7", "8", "9">>

IsDigit(c) == \E d \in DOMAIN DigitChars : DigitChars[d] = c

\* ch - '0'
DigitValue(c) == (CHOOSE d \in DOMAIN DigitChars : DigitChars[d] = c) - 1

RECURSIVE FormatNat(_)
FormatNat(n) ==
    IF n < 10 THEN <<DigitChars[n + 1]>>
    ELSE Append(FormatNat(n \div 10), DigitChars[(n % 10) + 1])

\* strconv.Itoa: the decimal representation, as a sequence of characters
Itoa(n) == IF n < 0 THEN <<"-">> \o FormatNat(0 - n) ELSE FormatNat(n)

\* the loop of strconv.Atoi over the characters after the sign
RECURSIVE AtoiDigits(_, _, _)
AtoiDigits(s, i, n) ==
    IF i > Len(s) THEN [err |-> FALSE, n |-> n]
    ELSE IF ~IsDigit(s[i]) THEN [err |-> TRUE, n |-> 0]
    ELSE AtoiDigits(s, i + 1, n * 10 + DigitValue(s[i]))

\* strconv.Atoi on a string short enough for its fast path (fewer than 19
\* characters): an optional sign, then at least one digit, nothing else
Atoi(s) ==
    IF s = <<>> THEN [err |-> TRUE, n |-> 0]
    ELSE LET signed == s[1] \in {"-", "+"}
             body == IF signed THEN Tail(s) ELSE s
             r == AtoiDigits(body, 1, 0)
         IN  IF body = <<>> THEN [err |-> TRUE, n |-> 0]
             ELSE IF r.err THEN r
             ELSE IF s[1] = "-" THEN [err |-> FALSE, n |-> 0 - r.n]
             ELSE r

\* ----------------------------------------------------- service.ListOrders
DefaultPageSize == 10
MaxPageSize == 100

\* mutant of EffectivePageSize: a page size of zero is not replaced
EffectivePageSizeZero(pageSize) ==
    IF pageSize < 0 THEN DefaultPageSize
    ELSE IF pageSize > MaxPageSize THEN MaxPageSize
    ELSE pageSize

\* pageSize after the two adjustments
EffectivePageSize(pageSize) ==
    LET defaulted == IF pageSize <= 0 THEN DefaultPageSize ELSE pageSize IN
    IF defaulted > MaxPageSize THEN MaxPageSize ELSE defaulted

\* mutant of DecodePageToken: a parsed value is taken whatever its sign
DecodePageTokenAnySign(pageToken) ==
    IF pageToken # <<>> /\ ~Atoi(pageToken).err THEN Atoi(pageToken).n ELSE 0

\* offset: the page token parsed, 0 unless it is a positive integer
DecodePageToken(pageToken) ==
    IF pageToken # <<>> /\ ~Atoi(pageToken).err /\ Atoi(pageToken).n > 0
    THEN Atoi(pageToken).n
    ELSE 0

\* mutant of NextPageToken: a token is emitted for every page that is not empty
NextPageTokenNonEmptyPage(n, pageSize, offset) ==
    IF n > 0 THEN Itoa(offset + pageSize) ELSE <<>>

\* mutant of NextPageToken: the token carries the offset of the page itself
NextPageTokenSameOffset(n, pageSize, offset) ==
    IF n = pageSize THEN Itoa(offset) ELSE <<>>

\* nextPageToken for a page of n orders
NextPageToken(n, pageSize, offset) ==
    IF n = pageSize THEN Itoa(offset + pageSize) ELSE <<>>

\* the orders a query ORDER BY created_at DESC can deliver before LIMIT and
\* OFFSET apply: rows of equal created_at come in any order
NewestFirst(rows) ==
    {s \in Perms(rows) : \A i, j \in DOMAIN s : i < j => s[i].created_at >= s[j].created_at}

\* LIMIT limit OFFSET offset
Window(s, limit, offset) ==
    SubSeq(s, offset + 1, IF offset + limit < Len(s) THEN offset + limit ELSE Len(s))

\* repository.GetByUserID: the result sets the query can deliver
GetByUserID(userID, limit, offset) ==
    {Window(s, limit, offset) : s \in NewestFirst({o \in orders : o.user_id = userID})}

\* repository.List: the result sets the query can deliver
List(limit, offset) == {Window(s, limit, offset) : s \in NewestFirst(orders)}

ListRequest(user, pageSize, pageToken) ==
    [op |-> "ListOrders", user_id |-> user, page_size |-> pageSize, page_token |-> pageToken]

\* mutant of ListQuery: every request is answered by repository.List
ListQueryAlwaysList(r) ==
    [method |-> "List",
     user_id |-> r.user_id,
     limit |-> EffectivePageSize(r.page_size),
     offset |-> DecodePageToken(r.page_token)]

\* the repository call of ListOrders: method and arguments
ListQuery(r) ==
    [method |-> IF r.user_id # "" THEN "GetByUserID" ELSE "List",
     user_id |-> r.user_id,
     limit |-> EffectivePageSize(r.page_size),
     offset |-> DecodePageToken(r.page_token)]

\* the result sets the repository call of ListOrders can deliver
ListQueryResults(q) ==
    IF q.limit < 0 \/ q.offset < 0 THEN {}   \* the database rejects the statement
    ELSE IF q.method = "GetByUserID"
    THEN GetByUserID(q.user_id, q.limit, q.offset)
    ELSE List(q.limit, q.offset)

\* orderv1.ListOrdersResponse, or the error; query records the repository call
ListResponse(err, q, rows) ==
    [op |-> "ListOrders", err |-> err, query |-> q,
     orders |-> [i \in DOMAIN rows |-> ProtoOrder(rows[i], <<>>)],
     next_page_token |-> IF err = NoErr THEN NextPageToken(Len(rows), q.limit, q.offset)
                         ELSE <<>>]

\* the responses ListOrders can give to the request r
ListOrdersResponses(r) ==
    LET q == ListQuery(r) IN
    {ListResponse(Wrap(DriverErr, IF q.method = "GetByUserID"
                                  THEN "failed to list user orders"
                                  ELSE "failed to list orders"), q, <<>>)}
    \cup {ListResponse(NoErr, q, rows) : rows \in ListQueryResults(q)}

\* service.ListOrders: one query, run on the database handle
ListOrders(p, r) ==
    /\ pc[p] = "idle"
    /\ ~walk.active
    /\ last = NoLast
    /\ \E response \in ListOrdersResponses(r) :
          last' = Exchange(p, r, <<response.query.method>>, response)
    /\ UNCHANGED <<orders, order_items, nextId, clock, pc, req, cur, tx, calls, walk, users>>

\* the caller takes the response
Receive ==
    /\ last # NoLast
    /\ last' = NoLast
    /\ UNCHANGED <<orders, order_items, nextId, clock, pc, req, cur, tx, calls, walk, users>>

\* ------------------------------------------------- a client paging through
\* the client sends its next request: the first with an empty token, any later
\* one with the next_page_token of the page before; it stops at an empty
\* next_page_token
WalkPage(p, user, pageSize) ==
    /\ pc[p] = "idle"
    /\ last = NoLast
    /\ ~walk.done
    /\ pageSize > 0
    /\ IF walk.active THEN user = walk.user_id /\ pageSize = walk.page_size ELSE TRUE
    /\ \E response \in ListOrdersResponses(ListRequest(user, pageSize, walk.page_token)) :
          /\ response.err = NoErr
          /\ walk' = [active |-> TRUE,
                      done |-> response.next_page_token = <<>>,
                      user_id |-> user,
                      page_size |-> pageSize,
                      page_token |-> response.next_page_token,
                      pages |-> Append(walk.pages, response)]
    /\ UNCHANGED <<orders, order_items, nextId, clock, pc, req, cur, tx, calls, last, users>>

\* ---------------------------------------------------------- listed data
\* the request whose creation left the order of user u in a data set
DataRequest(u) == CreateRequest(u, <<Item("sku-1", 2, 10)>>)

\* data sets of n orders: each the order a CreateOrder of DataRequest(u[i])
\* committed at time t[i]; identifiers are handed out in the order of the times
DataSets(n) ==
    {[i \in 1..n |-> NewOrder(i, u[i], 20, t[i])] :
        u \in [1..n -> Users],
        t \in {f \in [1..n -> 0..MaxClock] : \A i, j \in 1..n : i < j => f[i] <= f[j]}}

PageSizes == {0 - 1, 0, 1, 2, 100, 101}
TokenChars == {"0", "2", "4", "-", "x"}
PageTokens == SeqsUpTo(TokenChars, MaxTokenLen)

InitPage ==
    /\ \E n \in 0..MaxData : \E d \in DataSets(n) :
          /\ orders = Range(d)
          /\ order_items = {ItemRow(d[i], DataRequest(d[i].user_id).items, 1) : i \in 1..n}
          /\ nextId = n + 1
    /\ clock = MaxClock
    /\ pc = [p \in Procs |-> "idle"]
    /\ req = [p \in Procs |-> NoReq]
    /\ cur = [p \in Procs |-> None]
    /\ tx = [p \in Procs |-> NoTx]
    /\ calls = [p \in Procs |-> <<>>]
    /\ last = NoLast
    /\ walk = NoWalk
    /\ users = {}

NextPage ==
    \/ /\ last = NoLast
       /\ \E user \in {""} \cup Users, pageSize \in PageSizes, pageToken \in PageTokens :
             ListOrders(1, ListRequest(user, pageSize, pageToken))
    \/ Receive
    \/ /\ last = NoLast
       /\ \E user \in {""} \cup Users, pageSize \in PageSizes : WalkPage(1, user, pageSize)

SpecPage == InitPage /\ [][NextPage]_vars

\* ------------------------------------------- status changes of stored orders
\* the identifiers of the stored orders
StoredIds == {o.id : o \in orders}

\* worker 1 changes the status of the orders of a stored data set, one request
\* after the other
NextStored ==
    \/ \E id \in StoredIds, status \in StatusInputs : UpdateOrderStatus(1, id, status)
    \/ \E id \in StoredIds : CancelOrder(1, id)
    \/ UpdateStatus(1)
    \/ GetByIDOrder(1)
    \/ GetByIDItems(1)

SpecStored == InitPage /\ [][NextStored]_vars

\* the workers cancel the orders of a stored data set at the same time, and
\* no other request runs
NextCancel ==
    \/ \E p \in Procs, id \in StoredIds : CancelOrder(p, id)
    \/ \E p \in Procs : GetByIDOrder(p)
    \/ \E p \in Procs : GetByIDItems(p)
    \/ \E p \in Procs : UpdateStatus(p)

SpecCancel == InitPage /\ [][NextCancel]_vars

\* worker 1 runs UpdateOrderStatus requests on the pending orders of a stored
\* data set, one after the other
NextUpdatePending ==
    \/ \E id \in StoredIds, status \in StatusInputs :
          /\ \E o \in orders : o.id = id /\ o.status = "pending"
          /\ UpdateOrderStatus(1, id, status)
    \/ UpdateStatus(1)
    \/ GetByIDOrder(1)
    \/ GetByIDItems(1)

SpecUpdatePending == InitPage /\ [][NextUpdatePending]_vars

\* ----------------------------------------------------- the user service
\* a row of table users
User(id, email, name) == [id |-> id, email |-> email, name |-> name]

\* mutant of EmailTaken: the column email carries no constraint
EmailTakenNever(email, id) == FALSE

\* email VARCHAR(255) NOT NULL UNIQUE: a row other than id holds the email
EmailTaken(email, id) == \E u \in users : u.email = email /\ u.id # id

\* the user repository's error for a statement the constraint rejects
UniqueViolation == WithCode(Wrap(DriverErr, "user with this email already exists"), CodeConflict)

\* the user repository's error for an id no row has
UserNotFound == WithCode(New("user not found"), CodeNotFound)

\* the checks of the arguments CreateUser and UpdateUser start with
UserInputCheck(email, name) ==
    IF email = ""
    THEN WithCode(New("email is required"), CodeInvalidInput)
    ELSE IF name = ""
    THEN WithCode(New("name is required"), CodeInvalidInput)
    ELSE NoErr

\* CreateUser up to its call of GetByEmail
CreateUser(p, email, name) ==
    LET r == [op |-> "CreateUser", email |-> email, name |-> name] IN
    /\ pc[p] = "idle"
    /\ nextId <= MaxUsers
    /\ UNCHANGED <<orders, order_items, nextId, clock, walk, users>>
    /\ IF UserInputCheck(email, name) # NoErr
       THEN Return(p, r, <<>>, ErrorResponse(r.op, UserInputCheck(email, name)))
       ELSE /\ Goto(p, "create_user_check", [email |-> email, name |-> name], <<"GetByEmail">>)
            /\ req' = [req EXCEPT ![p] = r]
            /\ UNCHANGED tx

\* CreateUser: GetByEmail has answered; uuid.New
CreateUserCheck(p) ==
    /\ pc[p] = "create_user_check"
    /\ UNCHANGED <<orders, order_items, clock, walk, users>>
    /\ \/ /\ \E u \in users : u.email = cur[p].email
          /\ Fail(p, WithCode(New("user with this email already exists"), CodeConflict))
          /\ UNCHANGED nextId
       \/ \* no row has the email, or the query has failed
          /\ Goto(p, "create_user_insert",
                  [user |-> User(nextId, cur[p].email, cur[p].name)],
                  Append(calls[p], "Create"))
          /\ nextId' = nextId + 1
          /\ UNCHANGED <<req, tx>>

\* CreateUser: the INSERT of the user repository's Create
CreateUserInsert(p) ==
    /\ pc[p] = "create_user_insert"
    /\ UNCHANGED <<orders, order_items, nextId, clock, walk>>
    /\ \/ /\ Fail(p, Wrap(DriverErr, "failed to create user"))
          /\ UNCHANGED users
       \/ IF EmailTaken(cur[p].user.email, cur[p].user.id)
          THEN /\ Fail(p, UniqueViolation)
               /\ UNCHANGED users
          ELSE /\ users' = users \cup {cur[p].user}
               /\ Return(p, req[p], calls[p], Response("CreateUser", NoErr, cur[p].user, TRUE))

\* UpdateUser up to its call of GetByID
UpdateUser(p, id, email, name) ==
    LET r == [op |-> "UpdateUser", id |-> id, email |-> email, name |-> name]
        err == IF id = EmptyId
               THEN WithCode(New("user ID is required"), CodeInvalidInput)
               ELSE UserInputCheck(email, name)
    IN
    /\ pc[p] = "idle"
    /\ UNCHANGED <<orders, order_items, nextId, clock, walk, users>>
    /\ IF err # NoErr
       THEN Return(p, r, <<>>, ErrorResponse(r.op, err))
       ELSE /\ Goto(p, "update_user_get", [id |-> id, email |-> email, name |-> name],
                    <<"GetByID">>)
            /\ req' = [req EXCEPT ![p] = r]
            /\ UNCHANGED tx

\* UpdateUser: GetByID has answered
UpdateUserGet(p) ==
    /\ pc[p] = "update_user_get"
    /\ UNCHANGED <<orders, order_items, nextId, clock, walk, users>>
    /\ \/ Fail(p, Wrap(DriverErr, "failed to get user"))
       \/ IF {u \in users : u.id = cur[p].id} = {}
          THEN Fail(p, UserNotFound)
          ELSE \E u \in users :
                  /\ u.id = cur[p].id
                  /\ IF u.email # cur[p].email
                     THEN Goto(p, "update_user_check", cur[p], Append(calls[p], "GetByEmail"))
                     ELSE Goto(p, "update_user_update", cur[p], Append(calls[p], "Update"))
                  /\ UNCHANGED <<req, tx>>

\* UpdateUser: GetByEmail has answered
UpdateUserCheck(p) ==
    /\ pc[p] = "update_user_check"
    /\ UNCHANGED <<orders, order_items, nextId, clock, walk, users>>
    /\ \/ /\ \E u \in users : u.email = cur[p].email /\ u.id # cur[p].id
          /\ Fail(p, WithCode(New("email is already taken"), CodeConflict))
       \/ \* no other row has the email, or the query has failed
          /\ Goto(p, "update_user_update", cur[p], Append(calls[p], "Update"))
          /\ UNCHANGED <<req, tx>>

\* UpdateUser: the UPDATE of the user repository's Update
UpdateUserUpdate(p) ==
    /\ pc[p] = "update_user_update"
    /\ UNCHANGED <<orders, order_items, nextId, clock, walk>>
    /\ \/ /\ Fail(p, Wrap(DriverErr, "failed to update user"))
          /\ UNCHANGED users
       \/ IF {u \in users : u.id = cur[p].id} = {}
          THEN /\ Fail(p, UserNotFound)
               /\ UNCHANGED users
          ELSE IF EmailTaken(cur[p].email, cur[p].id)
          THEN /\ Fail(p, UniqueViolation)
               /\ UNCHANGED users
          ELSE /\ users' = {IF u.id = cur[p].id
                             THEN User(u.id, cur[p].email, cur[p].name) ELSE u : u \in users}
               /\ Return(p, req[p], calls[p],
                         Response("UpdateUser", NoErr,
                                  User(cur[p].id, cur[p].email, cur[p].name), TRUE))

UserEmails == {"", "a@example.com", "b@example.com"}
UserNames == {"", "Ann", "Bob"}
UserIds == 0..MaxUsers

\* the workers handle CreateUser and UpdateUser requests at the same time
NextUser ==
    \/ \E p \in Procs, email \in UserEmails, name \in UserNames : CreateUser(p, email, name)
    \/ \E p \in Procs : CreateUserCheck(p)
    \/ \E p \in Procs : CreateUserInsert(p)
    \/ \E p \in Procs, id \in UserIds, email \in UserEmails, name \in UserNames :
          UpdateUser(p, id, email, name)
    \/ \E p \in Procs : UpdateUserGet(p)
    \/ \E p \in Procs : UpdateUserCheck(p)
    \/ \E p \in Procs : UpdateUserUpdate(p)

SpecUser == Init /\ [][NextUser]_vars

\* ------------------------------------------------- the status conversions
\* the strings handed to statusToProto: the five names and strings that are
\* none of them
StatusStrings == StoredStatuses \cup {"unknown", "", "PENDING"}

\* one conversion: statusToProto of the next string, then statusFromProto of
\* the enum value it gave
ConvertStatus(p) ==
    /\ pc[p] = "status_test"
    /\ cur[p].i <= Len(cur[p].tests)
    /\ LET statusStr == cur[p].tests[cur[p].i]
           got == statusToProto(statusStr)
           gotStr == statusFromProto(got)
       IN  last' = Exchange(p, [op |-> "StatusConversion", status |-> statusStr], <<>>,
                            [op |-> "StatusConversion", err |-> NoErr,
                             status |-> got, stored |-> gotStr])
    /\ cur' = [cur EXCEPT ![p].i = @ + 1]
    /\ UNCHANGED <<orders, order_items, nextId, clock, pc, req, tx, calls, walk, users>>

\* a run of conversions over a table of up to MaxTests strings
InitStatus ==
    /\ orders = {}
    /\ order_items = {}
    /\ nextId = 1
    /\ clock = 0
    /\ pc = [p \in Procs |-> "status_test"]
    /\ req = [p \in Procs |-> NoReq]
    /\ \E tests \in SeqsUpTo(StatusStrings, MaxTests) :
          cur = [p \in Procs |-> [tests |-> IF p = 1 THEN tests ELSE <<>>, i |-> 1]]
    /\ tx = [p \in Procs |-> NoTx]
    /\ calls = [p \in Procs |-> <<>>]
    /\ last = NoLast
    /\ walk = NoWalk
    /\ users = {}

NextStatus == ConvertStatus(1)

SpecStatus == InitStatus /\ [][NextStatus]_vars

\* ----------------------------------------------------------------------
\* Properties of the order service
\* ----------------------------------------------------------------------
CreateStages == {"create_order", "create_item", "create_commit"}

\* the rows of order_items that belong to the order row o
ItemsOf(o) == {it \in order_items : it.order_id = o.id}

\* the item rows are exactly the items of the create request r
IsItemsOfRequest(rows, r) ==
    /\ Cardinality(rows) = Len(r.items)
    /\ \A i \in DOMAIN r.items : \E it \in rows :
          /\ it.product_id = r.items[i].product_id
          /\ it.quantity = r.items[i].quantity
          /\ it.price = r.items[i].price

\* worker p takes the step
Steps(p) == pc'[p] # pc[p] \/ cur'[p] # cur[p] \/ tx'[p] # tx[p]

CommittedStoreComplete ==
    /\ \A o \in orders : \E r \in AllCreateRequests :
          r.user_id = o.user_id /\ IsItemsOfRequest(ItemsOf(o), r)
    /\ \A it \in order_items : \E o \in orders : o.id = it.order_id

FailedCreateChangesNothing ==
    \A p \in Procs :
        (/\ pc[p] \in CreateStages
         /\ Steps(p)
         /\ ~(last'.proc = p /\ last'.resp.err = NoErr))
        => (orders' = orders /\ order_items' = order_items)

\* C1: order creation is atomic.  In every reachable state the committed
\* tables hold, for each order row, exactly the items of its create request,
\* and no item row without its order row; every step of a Create other than
\* its successful Commit, a failure at any statement or at Commit included,
\* leaves the committed tables as they were.
C1_CreateAtomic == []CommittedStoreComplete /\ [][FailedCreateChangesNothing]_vars

\* a Create has just failed at Commit, with the order row and all item rows
\* written in its transaction, while another worker is reading
C1_Witness ==
    /\ last.req.op = "CreateOrder"
    /\ last.resp.err.Message = "failed to commit transaction"
    /\ \E q \in Procs : pc[q] \in {"get_order", "get_items"}

\* C2: whenever the status write of a CancelOrder call takes effect, the
\* status it overwrites is neither delivered nor cancelled.
C2_CancelNeverOverwritesTerminal ==
    [][\A p \in Procs :
         (/\ req[p].op = "CancelOrder"
          /\ pc[p] = "update_status"
          /\ last'.proc = p
          /\ last'.resp.success)
         => \A o \in orders :
               o.id = cur[p].id => o.status \notin {"delivered", "cancelled"}]_vars

\* the sum over the items of quantity * price
RequestTotal(items) == SeqSum([i \in DOMAIN items |-> items[i].quantity * items[i].price])

\* the request fails one of the validation rules of CreateOrder
InvalidCreate(r) ==
    \/ r.user_id = ""
    \/ r.items = <<>>
    \/ \E i \in DOMAIN r.items :
          \/ r.items[i].product_id = ""
          \/ r.items[i].quantity <= 0
          \/ r.items[i].price <= 0

\* C3: for a CreateOrder request that passes validation, the order handed to
\* repository.Create and the order returned to the caller have total_amount
\* equal to the sum over the request's items of quantity * price, and status
\* pending.
C3_TotalAndPending ==
    /\ \A p \in Procs :
          pc[p] \in CreateStages =>
             /\ cur[p].order.total_amount = RequestTotal(req[p].items)
             /\ cur[p].order.status = "pending"
    /\ (last.resp.op = "CreateOrder" /\ last.resp.err = NoErr) =>
          /\ ~InvalidCreate(last.req)
          /\ last.resp.order.total_amount = RequestTotal(last.req.items)
          /\ last.resp.order.status = "ORDER_STATUS_PENDING"

\* a create request of two items has been answered with its order
C3_Witness ==
    /\ last.resp.op = "CreateOrder"
    /\ last.resp.err = NoErr
    /\ Len(last.req.items) = 2
    /\ last.resp.order.total_amount = 41
    /\ last.resp.order.user_id = "u2"

InvalidCreateRejected ==
    /\ (last.req.op = "CreateOrder" /\ InvalidCreate(last.req)) =>
          /\ GetCode(last.resp.err) = CodeInvalidInput
          /\ last.calls = <<>>
    /\ \A p \in Procs : pc[p] \in CreateStages => ~InvalidCreate(req[p])

InvalidCreateChangesNothing ==
    (last'.req.op = "CreateOrder" /\ InvalidCreate(last'.req))
    => (orders' = orders /\ order_items' = order_items /\ tx' = tx)

\* C4: CreateOrder with an empty user_id, an empty item list, or an item with
\* empty product_id, quantity <= 0 or price <= 0 returns INVALID_INPUT, never
\* calls repository.Create, and leaves the store unchanged.
C4_InvalidCreate == []InvalidCreateRejected /\ [][InvalidCreateChangesNothing]_vars

\* a request whose second item is the invalid one has been rejected
C4_Witness ==
    /\ last.req.op = "CreateOrder"
    /\ Len(last.req.items) = 2
    /\ last.req.items[2].price <= 0
    /\ GetCode(last.resp.err) = CodeInvalidInput

\* C5 as stated: every INVALID_INPUT failure of an order workflow operation is
\* returned before the operation has made any persistence call.
C5_InvalidInputBeforePersistence ==
    (last.req.op \in {"CreateOrder", "GetOrder", "UpdateOrderStatus", "CancelOrder"}
     /\ GetCode(last.resp.err) = CodeInvalidInput)
    => last.calls = <<>>

\* C5 amended: an INVALID_INPUT failure is returned before any persistence
\* call, except CancelOrder's refusal of a cancelled or delivered order, which
\* is returned after the single GetByID that read the status and before any
\* persistence write.
C5_InvalidInputBeforeWrite ==
    (last.req.op \in {"CreateOrder", "GetOrder", "UpdateOrderStatus", "CancelOrder"}
     /\ GetCode(last.resp.err) = CodeInvalidInput)
    => \/ last.calls = <<>>
       \/ /\ last.req.op = "CancelOrder"
          /\ last.resp.err.Message \in
                {"order is already cancelled", "cannot cancel delivered order"}
          /\ last.calls = <<"GetByID">>

\* CancelOrder has refused a delivered order
C5_Witness ==
    /\ last.req.op = "CancelOrder"
    /\ last.resp.err.Message = "cannot cancel delivered order"
    /\ GetCode(last.resp.err) = CodeInvalidInput
    /\ last.calls = <<"GetByID">>

\* ----------------------------------------------------------------------
\* Properties of ListOrders
\* ----------------------------------------------------------------------
\* the last step answered a ListOrders request, with a page
Listed == last.req.op = "ListOrders" /\ last.resp.err = NoErr

\* the orders a list request is about
Matching(user) == IF user = "" THEN orders ELSE {o \in orders : o.user_id = user}

\* the ids of the orders of a page, in the order of the page
PageIds(response) == [i \in DOMAIN response.orders |-> response.orders[i].id]

\* the number a sequence of digits denotes
RECURSIVE Pow10(_)
Pow10(k) == IF k = 0 THEN 1 ELSE 10 * Pow10(k - 1)

Denotes(digits) ==
    SeqSum([i \in DOMAIN digits |-> DigitValue(digits[i]) * Pow10(Len(digits) - i)])

AllDigits(digits) == digits # <<>> /\ \A i \in DOMAIN digits : IsDigit(digits[i])

\* the decimal string of a natural number: digits, no sign, no leading zero
IsDecimalOf(token, n) ==
    /\ AllDigits(token)
    /\ (Len(token) > 1 => token[1] # "0")
    /\ Denotes(token) = n

FirstPageOfTwo ==
    /\ Listed
    /\ last.req.page_size = 2
    /\ last.req.page_token = <<>>
    /\ Cardinality(Matching(last.req.user_id)) = 2

\* C6 as stated: page_size = 2 and no token against exactly 2 matching orders
\* returns both orders with an empty next_page_token.
C6_ExactPageEmptyToken ==
    FirstPageOfTwo =>
       /\ Range(PageIds(last.resp)) = {o.id : o \in Matching(last.req.user_id)}
       /\ last.resp.next_page_token = <<>>

\* C6 amended: page_size = 2 and no token against exactly 2 matching orders
\* returns both orders with next_page_token "2"; the request that carries this
\* token returns no order and an empty next_page_token.
C6_ExactPageTokenTwo ==
    /\ FirstPageOfTwo =>
          /\ Len(last.resp.orders) = 2
          /\ Range(PageIds(last.resp)) = {o.id : o \in Matching(last.req.user_id)}
          /\ last.resp.next_page_token = <<"2">>
    /\ (/\ Listed
        /\ last.req.page_size = 2
        /\ last.req.page_token = <<"2">>
        /\ Cardinality(Matching(last.req.user_id)) = 2) =>
          /\ last.resp.orders = <<>>
          /\ last.resp.next_page_token = <<>>

\* the two orders of user u1, out of three stored, have been listed
C6_Witness ==
    /\ FirstPageOfTwo
    /\ last.req.user_id = "u1"
    /\ Cardinality(orders) = 3
    /\ Len(last.resp.orders) = 2

\* C7: a next_page_token is emitted exactly when the number of orders returned
\* equals the effective page size, and it is the decimal string of
\* offset + pageSize; with fewer orders returned the token is empty.
C7_TokenIffFullPage ==
    Listed =>
       /\ (last.resp.next_page_token # <<>>)
             <=> (Len(last.resp.orders) = last.resp.query.limit)
       /\ last.resp.next_page_token # <<>> =>
             IsDecimalOf(last.resp.next_page_token,
                         last.resp.query.offset + last.resp.query.limit)

\* a full page that does not start at offset 0 has been returned
C7_Witness ==
    /\ Listed
    /\ last.resp.query.offset = 2
    /\ last.resp.query.limit = 1
    /\ last.resp.next_page_token = <<"3">>

\* the ids of all pages of the walk, first page first
RECURSIVE WalkIds(_)
WalkIds(pages) == IF pages = <<>> THEN <<>> ELSE PageIds(Head(pages)) \o WalkIds(Tail(pages))

\* C8: over an unchanging data set, following next_page_token from an empty
\* token ends with an empty token, and the pages together contain every
\* matching order exactly once; for 3 matching orders and page size 2 the first
\* page carries a token and the second is the 3rd order alone.
C8_WalkCoversOnce ==
    walk.done =>
       LET ids == WalkIds(walk.pages)
           matching == {o.id : o \in Matching(walk.user_id)}
       IN  /\ Range(ids) = matching
           /\ Len(ids) = Cardinality(matching)
           /\ (Cardinality(matching) = 3 /\ walk.page_size = 2) =>
                 /\ Len(walk.pages) = 2
                 /\ walk.pages[1].next_page_token # <<>>
                 /\ Len(walk.pages[2].orders) = 1
                 /\ walk.pages[2].orders[1].id \notin Range(PageIds(walk.pages[1]))

\* what the claim says the offset of a page token is; a token is a number when
\* it is a sequence of digits after an optional sign
Unsigned(token) == IF token # <<>> /\ token[1] \in {"-", "+"} THEN Tail(token) ELSE token

TokenValue(token) ==
    IF token # <<>> /\ token[1] = "-" THEN 0 - Denotes(Unsigned(token))
    ELSE Denotes(Unsigned(token))

ExpectedOffset(token) ==
    IF AllDigits(Unsigned(token)) /\ TokenValue(token) > 0 THEN TokenValue(token) ELSE 0

\* C9: ListOrders never fails because of its page token: an absent token, one
\* that does not parse as an integer and one that parses to a value <= 0 give
\* offset 0, a token that parses to a positive integer n gives offset n; the only
\* failure of ListOrders is that of its query.
C9_TokenDecoding ==
    last.req.op = "ListOrders" =>
       /\ last.resp.query.offset = ExpectedOffset(last.req.page_token)
       /\ last.resp.err # NoErr =>
             /\ GetCode(last.resp.err) = ""
             /\ last.resp.err.Message \in {"failed to list orders", "failed to list user orders"}

\* a token that parses to a negative number has been answered with the first page
C9_Witness ==
    /\ Listed
    /\ last.req.page_token = <<"-", "2">>
    /\ last.resp.query.offset = 0
    /\ Len(last.resp.orders) = 3

\* C10: the limit passed to persistence is 10 for a page_size <= 0, 100 for a
\* page_size above 100, and the page_size otherwise.
C10_Limit ==
    last.req.op = "ListOrders" =>
       last.resp.query.limit =
          CASE last.req.page_size <= 0 -> 10
            [] last.req.page_size > 100 -> 100
            [] OTHER -> last.req.page_size

\* a page_size of 0 has been answered with limit 10
C10_Witness ==
    /\ Listed
    /\ last.req.page_size = 0
    /\ last.resp.query.limit = 10
    /\ last.calls = <<"List">>

\* ----------------------------------------------------------------------
\* Properties of CancelOrder and UpdateOrderStatus
\* ----------------------------------------------------------------------
\* the error of a statement the database failed to run: errors.Wrap of the
\* driver's error, which carries no code
StorageMessages ==
    {"failed to begin transaction", "failed to get order", "failed to get order items",
     "failed to update order status", "failed to get affected rows",
     "failed to delete order items", "failed to delete order",
     "failed to commit transaction"}

StorageFailure(err) == err # NoErr /\ err.Code = "" /\ err.Message \in StorageMessages

\* the stored order with identifier id has status st
StoredStatusIs(rows, id, st) == \E o \in rows : o.id = id /\ o.status = st

\* C11: with no other request in progress, a CancelOrder on a stored order
\* whose status is pending, confirmed or shipped ends, unless a statement
\* fails in the database, with success = true and the stored status cancelled.
C11_CancelSucceeds ==
    [][\A o \in orders :
         (/\ last'.req.op = "CancelOrder"
          /\ last'.req.id = o.id
          /\ o.status \in {"pending", "confirmed", "shipped"})
         => \/ StorageFailure(last'.resp.err)
            \/ /\ last'.resp.err = NoErr
               /\ last'.resp.success
               /\ StoredStatusIs(orders', o.id, "cancelled")]_vars

\* a CancelOrder has returned success after its read and its write, and the
\* stored order is cancelled
C11_Witness ==
    /\ last.req.op = "CancelOrder"
    /\ last.resp.err = NoErr
    /\ last.resp.success
    /\ last.calls = <<"GetByID", "UpdateStatus">>
    /\ StoredStatusIs(orders, last.req.id, "cancelled")

\* C12: with no other request in progress, a CancelOrder on a stored order
\* whose status is cancelled or delivered fails, unless a statement fails in
\* the database, with INVALID_INPUT ("order is already cancelled", "cannot
\* cancel delivered order") and leaves the tables as they were; so does the
\* second of two CancelOrder calls in sequence, which finds the order cancelled.
C12_CancelRefused ==
    [][\A o \in orders :
         (/\ last'.req.op = "CancelOrder"
          /\ last'.req.id = o.id
          /\ o.status \in {"cancelled", "delivered"})
         => /\ \/ StorageFailure(last'.resp.err)
               \/ /\ GetCode(last'.resp.err) = CodeInvalidInput
                  /\ last'.resp.err.Message =
                        IF o.status = "cancelled" THEN "order is already cancelled"
                        ELSE "cannot cancel delivered order"
            /\ orders' = orders
            /\ order_items' = order_items]_vars

\* a CancelOrder has been refused because the order is already cancelled
C12_Witness ==
    /\ last.req.op = "CancelOrder"
    /\ GetCode(last.resp.err) = CodeInvalidInput
    /\ last.resp.err.Message = "order is already cancelled"
    /\ StoredStatusIs(orders, last.req.id, "cancelled")

\* an UpdateOrderStatus request without an id or with the UNSPECIFIED status
UpdateWithoutIdOrStatus(r) ==
    /\ r.op = "UpdateOrderStatus"
    /\ (r.id = EmptyId \/ r.status = "ORDER_STATUS_UNSPECIFIED")

UpdateWithoutIdOrStatusRejected ==
    /\ UpdateWithoutIdOrStatus(last.req) =>
          /\ GetCode(last.resp.err) = CodeInvalidInput
          /\ last.calls = <<>>
    /\ \A p \in Procs : ~UpdateWithoutIdOrStatus(req[p])

UpdateWithoutIdOrStatusChangesNothing ==
    UpdateWithoutIdOrStatus(last'.req) => (orders' = orders /\ order_items' = order_items)

\* C13: UpdateOrderStatus with the UNSPECIFIED status or with an empty id
\* fails with INVALID_INPUT, calls no repository method and changes no stored
\* order, whatever other requests are in progress.
C13_UpdateUnspecified ==
    []UpdateWithoutIdOrStatusRejected /\ [][UpdateWithoutIdOrStatusChangesNothing]_vars

\* an UpdateOrderStatus with the UNSPECIFIED status on a stored order has been
\* rejected
C13_Witness ==
    /\ last.req.op = "UpdateOrderStatus"
    /\ last.req.status = "ORDER_STATUS_UNSPECIFIED"
    /\ \E o \in orders : o.id = last.req.id
    /\ GetCode(last.resp.err) = CodeInvalidInput

\* the stored name of each concrete status of the wire enum
ConcreteStatusName ==
    [ORDER_STATUS_PENDING |-> "pending", ORDER_STATUS_CONFIRMED |-> "confirmed",
     ORDER_STATUS_SHIPPED |-> "shipped", ORDER_STATUS_DELIVERED |-> "delivered",
     ORDER_STATUS_CANCELLED |-> "cancelled"]

\* the UPDATE of an UpdateOrderStatus(id, t) on a stored order, whatever its
\* status, sets the stored status to t unless the database fails to run it
UpdateWritesAnyStatus ==
    \A p \in Procs, o \in orders :
        (/\ pc[p] = "update_status"
         /\ req[p].op = "UpdateOrderStatus"
         /\ req[p].status \in DOMAIN ConcreteStatusName
         /\ req[p].id = o.id
         /\ pc'[p] # "update_status")
        => \/ /\ StorageFailure(last'.resp.err)
              /\ last'.resp.err.Message = "failed to update order status"
              /\ orders' = orders
           \/ StoredStatusIs(orders', o.id, ConcreteStatusName[req[p].status])

\* an UpdateOrderStatus(id, t) on a stored order ends in success with the
\* order in status t, or in the failure of a statement in the database
UpdateEndsInSuccess ==
    \A o \in orders :
        (/\ last'.req.op = "UpdateOrderStatus"
         /\ last'.req.status \in DOMAIN ConcreteStatusName
         /\ last'.req.id = o.id)
        => \/ StorageFailure(last'.resp.err)
           \/ /\ last'.resp.err = NoErr
              /\ last'.resp.order.status = last'.req.status
              /\ StoredStatusIs(orders', o.id, ConcreteStatusName[last'.req.status])

\* C14: UpdateOrderStatus restricts no transition.  With no other request in
\* progress, for a stored order of any status s and any concrete status t
\* (t = s, delivered to pending and cancelled to pending included),
\* UpdateOrderStatus(id, t) sets the stored status to t and succeeds, unless a
\* statement fails in the database.
C14_NoTransitionRestriction ==
    [][UpdateWritesAnyStatus /\ UpdateEndsInSuccess]_vars

\* an UpdateOrderStatus to pending has succeeded on an order that is pending
\* again
C14_Witness ==
    /\ last.req.op = "UpdateOrderStatus"
    /\ last.req.status = "ORDER_STATUS_PENDING"
    /\ last.resp.err = NoErr
    /\ last.calls = <<"UpdateStatus", "GetByID">>
    /\ last.resp.order.status = "ORDER_STATUS_PENDING"
    /\ StoredStatusIs(orders, last.req.id, "pending")

\* ----------------------------------------------------------------------
\* Properties of the status mapping
\* ----------------------------------------------------------------------
\* a string has been converted
Converted == last.req.op = "StatusConversion"

\* C15 as stated: statusToProto returns PENDING for every string that is not
\* one of the five recognized names.
C15_UnrecognizedIsPending ==
    (Converted /\ last.req.status \notin StoredStatuses)
    => last.resp.status = "ORDER_STATUS_PENDING"

\* C15 amended: statusToProto returns UNSPECIFIED for every string that is not
\* one of the five recognized names; it is statusFromProto that turns an enum
\* value it does not recognize, UNSPECIFIED included, into pending.
C15_UnrecognizedIsUnspecified ==
    (Converted /\ last.req.status \notin StoredStatuses)
    => /\ last.resp.status = "ORDER_STATUS_UNSPECIFIED"
       /\ last.resp.stored = "pending"

\* the string "unknown" has been converted
C15_Witness ==
    /\ Converted
    /\ last.req.status = "unknown"
    /\ last.resp.status = "ORDER_STATUS_UNSPECIFIED"

\* C16: statusToProto maps each of the five stored strings to the enum value
\* of the same name and every other string to UNSPECIFIED, and
\* statusFromProto(statusToProto(s)) = s for each of the five stored strings.
C16_StatusRoundTrip ==
    Converted =>
       IF last.req.status \in StoredStatuses
       THEN /\ last.resp.status \in DOMAIN ConcreteStatusName
            /\ ConcreteStatusName[last.resp.status] = last.req.status
            /\ last.resp.stored = last.req.status
       ELSE last.resp.status = "ORDER_STATUS_UNSPECIFIED"

\* "cancelled" has been converted, as the second string of a table
C16_Witness ==
    /\ Converted
    /\ cur[1].i = 3
    /\ last.req.status = "cancelled"
    /\ last.resp.status = "ORDER_STATUS_CANCELLED"
    /\ last.resp.stored = "cancelled"

\* ----------------------------------------------------------------------
\* Properties of GetOrder, UpdateOrderStatus, NOT_FOUND and Delete
\* ----------------------------------------------------------------------
\* C17: a GetOrder on an order created by CreateOrder returns exactly the items
\* of the create request, in the order in which Create inserted them: the k-th
\* item returned has the product_id, quantity and price of the k-th item
\* inserted (the row with identifier <<order, k>>).
C17_ItemsInRequestOrder ==
    (last.req.op = "GetOrder" /\ last.resp.err = NoErr) =>
       LET items == last.resp.order.items
           rows == {it \in order_items : it.order_id = last.req.id}
       IN  /\ Len(items) = Cardinality(rows)
           /\ \A k \in DOMAIN items :
                 \E it \in rows :
                    /\ it.id = <<last.req.id, k>>
                    /\ it.product_id = items[k].product_id
                    /\ it.quantity = items[k].quantity
                    /\ it.price = items[k].price

\* C18: a successful UpdateOrderStatus(id, s) returns the order with status s,
\* whatever other UpdateOrderStatus, CancelOrder or Delete requests on the
\* same order are in progress.
C18_UpdateReturnsRequestedStatus ==
    (/\ last.req.op = "UpdateOrderStatus"
     /\ last.req.status \in DOMAIN ConcreteStatusName
     /\ last.resp.err = NoErr)
    => last.resp.order.status = last.req.status

\* a request that reaches the repository with a non-empty id
LooksUp(r) ==
    /\ r.op \in {"GetOrder", "UpdateOrderStatus", "CancelOrder"}
    /\ r.id # EmptyId
    /\ r.op = "UpdateOrderStatus" => r.status # "ORDER_STATUS_UNSPECIFIED"

DeleteStages == {"delete_items", "delete_order", "delete_commit"}

\* every stored order has the items it was created with
OrdersKeepTheirItems ==
    \A o \in orders : \E r \in CreateRequests : IsItemsOfRequest(ItemsOf(o), r)

\* a step of a Delete that is not its successful Commit leaves the tables as
\* they were
DeleteChangesNothingBeforeCommit ==
    \A p \in Procs :
        (/\ pc[p] \in DeleteStages \cup {"idle"}
         /\ Steps(p)
         /\ \/ pc'[p] \in DeleteStages
            \/ last'.proc = p /\ last'.req.op = "Delete" /\ last'.resp.err # NoErr)
        => (orders' = orders /\ order_items' = order_items)

\* the successful Commit of a Delete removes the order row and all its item
\* rows, and nothing else, in one step
DeleteRemovesOrderAndItems ==
    (last'.req.op = "Delete" /\ last'.resp.err = NoErr)
    => \E o \in orders :
          /\ o.id = last'.req.id
          /\ orders' = orders \ {o}
          /\ order_items' = order_items \ ItemsOf(o)

\* a Delete of an id that matches no order row ends in NOT_FOUND, or in the
\* failure of a statement
DeleteOfMissingOrder ==
    (last'.req.op = "Delete" /\ \A o \in orders : o.id # last'.req.id)
    => \/ GetCode(last'.resp.err) = CodeNotFound
       \/ StorageFailure(last'.resp.err)

\* C20: repository.Delete is atomic.  On a stored order its Commit removes the
\* order row and all its item rows in one step; on a missing order it returns
\* NOT_FOUND; every step other than the successful Commit, the failure of a
\* statement or of Commit included, removes nothing; and in every reachable
\* state each stored order row has all its items.
C20_DeleteAtomic ==
    /\ []OrdersKeepTheirItems
    /\ [][/\ DeleteChangesNothingBeforeCommit
          /\ DeleteRemovesOrderAndItems
          /\ DeleteOfMissingOrder]_vars

\* a Delete has committed: the order created earlier and its items are gone
C20_Witness ==
    /\ last.req.op = "Delete"
    /\ last.resp.err = NoErr
    /\ nextId > last.req.id
    /\ \A o \in orders : o.id # last.req.id
    /\ \A it \in order_items : it.order_id # last.req.id

\* ----------------------------------------------------------------------
\* Properties of the stored orders
\* ----------------------------------------------------------------------
\* C21: after any sequence of CreateOrder, UpdateOrderStatus, CancelOrder and
\* Delete operations, concurrent ones included, every order in the store has
\* at least one order item.
C21_OrdersHaveItems == \A o \in orders : ItemsOf(o) # {}

\* a Delete has failed and left the order, by now cancelled, with its items
C21_Witness ==
    /\ last.req.op = "Delete"
    /\ last.resp.err # NoErr
    /\ \E o \in orders :
          /\ o.id = last.req.id
          /\ o.status = "cancelled"
          /\ Cardinality(ItemsOf(o)) = 2

\* the total of every stored order is the total its creation computed from the
\* items of its request
TotalsAsCreated ==
    \A o \in orders : o.total_amount = RequestTotal(DataRequest(o.user_id).items)

\* the statement of repository.UpdateStatus leaves every order but its target as
\* it is, keeps the target's id, user_id, total_amount and created_at, and
\* leaves the order items alone
StatusWriteFrame ==
    \A p \in Procs :
        pc[p] = "update_status" /\ Steps(p) =>
            /\ order_items' = order_items
            /\ Cardinality(orders') = Cardinality(orders)
            /\ \A o \in orders :
                  IF o.id = cur[p].id
                  THEN \E n \in orders' :
                          /\ n.id = o.id
                          /\ n.user_id = o.user_id
                          /\ n.total_amount = o.total_amount
                          /\ n.created_at = o.created_at
                  ELSE o \in orders'

\* C22: a successful UpdateOrderStatus or CancelOrder changes only the status
\* and updated_at of the target order: id, user_id, total_amount, created_at,
\* the order items and every other order stay as they were, so the total of an
\* order is after any sequence of status updates the total computed at creation.
C22_StatusChangeOnly == []TotalsAsCreated /\ [][StatusWriteFrame]_vars

\* an UpdateOrderStatus has shipped order 1 of a store of three orders, and
\* the other two are pending with their items
C22_Witness ==
    /\ last.req.op = "UpdateOrderStatus"
    /\ last.resp.err = NoErr
    /\ last.req.id = 1
    /\ Cardinality(orders) = 3
    /\ \A o \in orders :
          /\ o.status = (IF o.id = 1 THEN "shipped" ELSE "pending")
          /\ o.total_amount = 20
          /\ Cardinality(ItemsOf(o)) = 1

\* the operations of the order workflow
WorkflowOps == {"CreateOrder", "GetOrder", "UpdateOrderStatus", "CancelOrder", "Delete"}

\* C23: every error an order workflow operation returns carries one of the
\* codes INVALID_INPUT, NOT_FOUND, CONFLICT and INTERNAL_ERROR, the errors of
\* failing persistence calls included: GetCode of it is never empty.
C23_ErrorsCarryCode ==
    last.req.op \in WorkflowOps /\ last.resp.err # NoErr =>
        GetCode(last.resp.err) \in {CodeInvalidInput, CodeNotFound, CodeConflict, CodeInternal}

\* C24: the status of a stored order is always one of pending, confirmed,
\* shipped, delivered and cancelled: no UpdateOrderStatus, whatever enum value
\* it carries, no CreateOrder and no CancelOrder persists another value.
C24_StoredStatusInSet == \A o \in orders : o.status \in StoredStatuses

\* an UpdateOrderStatus with a value outside the enum has succeeded on a
\* stored order
C24_Witness ==
    /\ last.req.op = "UpdateOrderStatus"
    /\ last.req.status = "ORDER_STATUS_99"
    /\ last.resp.err = NoErr
    /\ last.calls = <<"UpdateStatus", "GetByID">>
    /\ \E o \in orders : o.id = last.req.id /\ o.status = "pending"

\* ----------------------------------------------------------------------
\* The page of ListOrders
\* ----------------------------------------------------------------------
\* what the claim calls pageSize: the page size in effect for a request
ExpectedPageSize(n) == IF n <= 0 THEN 10 ELSE IF n > 100 THEN 100 ELSE n

\* the page is the window [offset, offset + pageSize) of the arrangement s
IsWindowOf(page, s, offset, pageSize) ==
    /\ Len(page) = (IF Len(s) <= offset THEN 0
                    ELSE IF Len(s) - offset < pageSize THEN Len(s) - offset
                    ELSE pageSize)
    /\ \A i \in DOMAIN page : page[i].id = s[offset + i].id

\* C25: ListOrders with a user_id returns orders of that user only and with
\* an empty user_id draws from all orders; the orders returned are the window
\* [offset, offset + pageSize) of the matching orders sorted newest first, and
\* never more than pageSize of them.
C25_PageIsWindow ==
    Listed =>
       LET pageSize == ExpectedPageSize(last.req.page_size)
           offset == ExpectedOffset(last.req.page_token)
           page == last.resp.orders
       IN  /\ last.req.user_id # "" =>
                 \A i \in DOMAIN page : page[i].user_id = last.req.user_id
           /\ Len(page) <= pageSize
           /\ \E s \in Perms(Matching(last.req.user_id)) :
                 /\ \A i, j \in DOMAIN s : i < j => s[i].created_at >= s[j].created_at
                 /\ IsWindowOf(page, s, offset, pageSize)

\* one of the two orders of user u1, out of three stored, has been listed as
\* a page of size 1
C25_Witness ==
    /\ Listed
    /\ last.req.user_id = "u1"
    /\ last.req.page_size = 1
    /\ Cardinality(orders) = 3
    /\ Cardinality(Matching("u1")) = 2
    /\ Len(last.resp.orders) = 1
    /\ last.resp.orders[1].user_id = "u1"

\* ----------------------------------------------------------------------
\* Concurrent requests on one order
\* ----------------------------------------------------------------------
\* C26: GetOrder never returns an order with an empty list of items, also
\* when a Delete of the order runs at the same time.
C26_GetOrderHasItems ==
    last.req.op = "GetOrder" /\ last.resp.err = NoErr => last.resp.order.items # <<>>

\* C27: of the CancelOrder calls that run at the same time on one order, with
\* no other request changing its status, at most one returns success: a
\* success of one worker is not followed by the success of another worker
\* whose call on the same order was under way.
C27_OneCancelSucceeds ==
    [][~(/\ last.req.op = "CancelOrder"
         /\ last.resp.success
         /\ last'.req.op = "CancelOrder"
         /\ last'.resp.success
         /\ last'.proc # last.proc
         /\ pc[last'.proc] = "update_status"
         /\ last'.req.id = last.req.id)]_vars

\* C28: when UpdateOrderStatus returns an error, the call has not changed the
\* stored status, a failure of the read after the write included: a call on a
\* pending order that ends in an error of that read leaves the order pending.
C28_FailedUpdateChangesNothing ==
    [][(/\ pc[1] # "idle"
        /\ pc'[1] = "idle"
        /\ last'.req.op = "UpdateOrderStatus"
        /\ last'.calls = <<"UpdateStatus", "GetByID">>
        /\ last'.resp.err # NoErr)
       => \A o \in orders' : o.id = last'.req.id => o.status = "pending"]_vars

\* ----------------------------------------------------------------------
\* The rows of repository.Create and the schema
\* ----------------------------------------------------------------------
\* the rows the INSERT statements of repository.Create have written, in a
\* transaction or committed
InsertedOrders == orders \cup UNION {tx[p].ins_orders : p \in Procs}
InsertedItems == order_items \cup UNION {tx[p].ins_items : p \in Procs}

\* C29: every row repository.Create inserts satisfies the constraints of
\* migration 002: the NOT NULL columns without default of orders and
\* order_items are supplied, quantity > 0, price >= 0 and status is one of the
\* five values, so that a valid CreateOrder commits and returns its order.
C29_RowsSatisfySchema ==
    /\ \A o \in InsertedOrders :
          /\ OrdersNotNull \subseteq DOMAIN o
          /\ o.status \in StoredStatuses
    /\ \A it \in InsertedItems :
          /\ OrderItemsNotNull \subseteq DOMAIN it
          /\ it.quantity > 0
          /\ it.price >= 0

\* ----------------------------------------------------------------------
\* Properties of the user service
\* ----------------------------------------------------------------------
\* no two rows of table users have the same email
EmailsUnique == \A u, v \in users : u.email = v.email => u = v

\* the errors of CreateUser and UpdateUser that are no rejection of an email:
\* a statement the database failed to run, and an id no row has
UserStorageMessages ==
    {"failed to create user", "failed to get user", "failed to update user"}

\* worker p's CreateUser or UpdateUser ends in this step, rejected for its email
EmailRejected(p) ==
    /\ pc[p] \in {"create_user_check", "create_user_insert",
                  "update_user_check", "update_user_update"}
    /\ pc'[p] = "idle"
    /\ last'.proc = p
    /\ last'.resp.err # NoErr
    /\ last'.resp.err # UserNotFound
    /\ last'.resp.err.Message \notin UserStorageMessages

\* a request rejected for its email is rejected with CONFLICT, and another
\* user has the email
RejectedWithConflict ==
    \A p \in Procs :
        EmailRejected(p) =>
            /\ GetCode(last'.resp.err) = CodeConflict
            /\ \E u \in users :
                  /\ u.email = req[p].email
                  /\ req[p].op = "UpdateUser" => u.id # req[p].id

====
